---- MODULE Spec2Model ----
(***************************************************************************)
(* Circuit-proposal marshalling layer of splinter:                         *)
(*   libsplinter/src/admin/messages.rs        CreateCircuit conversions    *)
(*   libsplinter/src/admin/rest_api/error.rs  route error taxonomy         *)
(*   splinterd/src/config/env.rs              environment configuration    *)
(*                                                                         *)
(* Four specifications share the variables below; each one drives one      *)
(* component and leaves the variables of the others at Idle.               *)
(*   SpecProto    from_proto / into_proto                                  *)
(*   SpecPayload  from_payload                                             *)
(*   SpecError    the error types' From / source                           *)
(*   SpecEnv      EnvVarConfig::new / build                                *)
(***************************************************************************)
EXTENDS Integers, Sequences, FiniteSets, TLC

VARIABLES
    origin,     \* "domain": the run starts from a CreateCircuit; "wire": from an admin::Circuit
    value,      \* the CreateCircuit in hand (None when there is none)
    circuit,    \* the admin::Circuit received from a peer (None when there is none)
    request,    \* what into_proto returned (None before the call)
    decoded,    \* what from_proto returned (None before the call)
    payload,    \* the request body: the chunks its stream yields, in order
    body,       \* the accumulator of the fold in from_payload
    fut,        \* the state of the future from_payload returned
    proposal,   \* the CreateCircuit built by the and_then closure (None when there is none)
    polled,     \* how many chunks of the payload the stream has yielded so far
    stream,     \* "open", or how the stream finished: "ended" or "errored"
    error,      \* the error a collaborator raised
    wrapped,    \* CircuitRouteError::from(error), for a store error (None before the call)
    cause,      \* what source() returned for the error (None before the call)
    shown,      \* what Display wrote for the error (None before the call)
    env,        \* the process environment: variable name -> value or Unset
    seen,       \* the environment as it was when EnvVarConfig::new ran
    config,     \* the EnvVarConfig (None when there is none)
    partial     \* the PartialConfig build returned (None before the call)

protoVars == <<origin, value, circuit, request, decoded>>
payloadVars == <<payload, body, fut, proposal, polled, stream>>
errorVars == <<error, wrapped, cause, shown>>
envVars == <<env, seen, config, partial>>
vars == <<origin, value, circuit, request, decoded, payload, body, fut, proposal,
          polled, stream, error, wrapped, cause, shown, env, seen, config, partial>>

(***************************************************************************)
(* Bounds of the model.                                                    *)
(***************************************************************************)
MaxRoster == 2
MaxMembers == 2
MaxAllowed == 2
MaxMeta == 1
MaxChunks == 2
MaxChunkLen == 2

(***************************************************************************)
(* Values.                                                                 *)
(***************************************************************************)
Idle == "idle"
None == [some |-> FALSE]
Some(v) == [some |-> TRUE, val |-> v]
Ok(v) == [ok |-> TRUE, val |-> v]
Err(e) == [ok |-> FALSE, err |-> e]

RECURSIVE SeqsUpTo(_, _)
SeqsUpTo(S, n) ==
    IF n = 0 THEN {<<>>}
    ELSE LET shorter == SeqsUpTo(S, n - 1)
         IN  shorter \cup {Append(s, e) : s \in {t \in shorter : Len(t) = n - 1}, e \in S}

CircuitIds == {"c1"}
ServiceIds == {"s1"}
ServiceTypes == {"scabbard"}
NodeIds == {"n1", "n2"}
PeerNodeIds == {"n1"}
Endpoints == {"tcp://a:8044"}
ManagementTypes == {"mgmt"}
MetaBytes == {0, 255}

(***************************************************************************)
(* messages.rs: the domain model.                                          *)
(***************************************************************************)
AuthorizationType == {"Trust"}
PersistenceType == {"Any"}
RouteType == {"Any"}

SplinterNode == [node_id : NodeIds, endpoint : Endpoints]

SplinterService ==
    [service_id : ServiceIds, service_type : ServiceTypes,
     allowed_nodes : SeqsUpTo(NodeIds, MaxAllowed)]

CreateCircuit ==
    [circuit_id : CircuitIds,
     roster : SeqsUpTo(SplinterService, MaxRoster),
     members : SeqsUpTo(SplinterNode, MaxMembers),
     authorization_type : AuthorizationType,
     persistence : PersistenceType,
     routes : RouteType,
     circuit_management_type : ManagementTypes,
     application_metadata : SeqsUpTo(MetaBytes, MaxMeta)]

UnsetField(reason) == [variant |-> "UnsetField", reason |-> reason]

(***************************************************************************)
(* protos::admin: the generated wire messages.  A new message holds the    *)
(* protobuf defaults: empty strings, empty repeated fields, and the enum   *)
(* value numbered 0, which is the UNSET_* one.                             *)
(***************************************************************************)
Circuit_AuthorizationType == {"UNSET_AUTHORIZATION_TYPE", "TRUST_AUTHORIZATION"}
Circuit_PersistenceType == {"UNSET_PERSISTENCE_TYPE", "ANY_PERSISTENCE"}
Circuit_RouteType == {"UNSET_ROUTE_TYPE", "ANY_ROUTE"}

ProtoSplinterNode_new == [node_id |-> "", endpoint |-> ""]

ProtoSplinterService_new == [service_id |-> "", service_type |-> "", allowed_nodes |-> <<>>]

ProtoCircuit_new ==
    [circuit_id |-> "", roster |-> <<>>, members |-> <<>>,
     authorization_type |-> "UNSET_AUTHORIZATION_TYPE",
     persistence |-> "UNSET_PERSISTENCE_TYPE",
     routes |-> "UNSET_ROUTE_TYPE",
     circuit_management_type |-> "", application_metadata |-> <<>>]

CircuitCreateRequest_new == [circuit |-> ProtoCircuit_new]

\* The wire messages a peer can send: every enum code, the unset ones included.
ProtoSplinterNode == [node_id : PeerNodeIds, endpoint : Endpoints]

ProtoSplinterService ==
    [service_id : ServiceIds, service_type : ServiceTypes,
     allowed_nodes : SeqsUpTo(PeerNodeIds, MaxAllowed)]

ProtoCircuit ==
    [circuit_id : CircuitIds,
     roster : SeqsUpTo(ProtoSplinterService, MaxRoster),
     members : SeqsUpTo(ProtoSplinterNode, MaxMembers),
     authorization_type : Circuit_AuthorizationType,
     persistence : Circuit_PersistenceType,
     routes : Circuit_RouteType,
     circuit_management_type : ManagementTypes,
     application_metadata : SeqsUpTo(MetaBytes, MaxMeta)]

(***************************************************************************)
(* messages.rs: SplinterNode and SplinterService.                          *)
(***************************************************************************)
SplinterNode_into_proto(self) ==
    [ProtoSplinterNode_new EXCEPT !.node_id = self.node_id, !.endpoint = self.endpoint]

\* A from_proto that takes the two fields the wrong way round.
SplinterNode_from_proto_Swapped(proto) ==
    Ok([node_id |-> proto.endpoint, endpoint |-> proto.node_id])

SplinterNode_from_proto(proto) ==
    Ok([node_id |-> proto.node_id, endpoint |-> proto.endpoint])

SplinterService_into_proto(self) ==
    [ProtoSplinterService_new EXCEPT !.service_id = self.service_id,
                                     !.service_type = self.service_type,
                                     !.allowed_nodes = self.allowed_nodes]

StringFrom(s) == s

\* take_allowed_nodes().into_iter().map(String::from).collect()
RECURSIVE AllowedNodesFromProto(_)
AllowedNodesFromProto(s) ==
    IF s = <<>> THEN <<>> ELSE <<StringFrom(Head(s))>> \o AllowedNodesFromProto(Tail(s))

\* A from_proto that drops the repeated entries of allowed_nodes.
RECURSIVE Dedup(_)
Dedup(s) ==
    IF s = <<>> THEN <<>>
    ELSE LET front == Dedup(SubSeq(s, 1, Len(s) - 1))
             last == s[Len(s)]
         IN  IF \E i \in 1..Len(front) : front[i] = last THEN front ELSE Append(front, last)

SplinterService_from_proto_Dedup(proto) ==
    Ok([service_id |-> proto.service_id,
        service_type |-> proto.service_type,
        allowed_nodes |-> Dedup(proto.allowed_nodes)])

SplinterService_from_proto(proto) ==
    Ok([service_id |-> proto.service_id,
        service_type |-> proto.service_type,
        allowed_nodes |-> AllowedNodesFromProto(proto.allowed_nodes)])

(***************************************************************************)
(* messages.rs: CreateCircuit::from_proto and CreateCircuit::into_proto.   *)
(***************************************************************************)
\* take_roster().into_iter().map(SplinterService::from_proto)
\*     .collect::<Result<Vec<SplinterService>, MarshallingError>>()
\* The first Err ends the iteration and is the result.
RECURSIVE RosterFromProto(_)
RosterFromProto(s) ==
    IF s = <<>> THEN Ok(<<>>)
    ELSE LET first == SplinterService_from_proto(Head(s))
         IN  IF ~first.ok THEN first
             ELSE LET rest == RosterFromProto(Tail(s))
                  IN  IF ~rest.ok THEN rest ELSE Ok(<<first.val>> \o rest.val)

\* take_members().into_iter().map(SplinterNode::from_proto)
\*     .collect::<Result<Vec<SplinterNode>, MarshallingError>>()
RECURSIVE MembersFromProto(_)
MembersFromProto(s) ==
    IF s = <<>> THEN Ok(<<>>)
    ELSE LET first == SplinterNode_from_proto(Head(s))
         IN  IF ~first.ok THEN first
             ELSE LET rest == MembersFromProto(Tail(s))
                  IN  IF ~rest.ok THEN rest ELSE Ok(<<first.val>> \o rest.val)

\* self.roster.into_iter().map(SplinterService::into_proto).collect()
RECURSIVE RosterIntoProto(_)
RosterIntoProto(s) ==
    IF s = <<>> THEN <<>>
    ELSE <<SplinterService_into_proto(Head(s))>> \o RosterIntoProto(Tail(s))

\* self.members.into_iter().map(SplinterNode::into_proto).collect()
RECURSIVE MembersIntoProto(_)
MembersIntoProto(s) ==
    IF s = <<>> THEN <<>>
    ELSE <<SplinterNode_into_proto(Head(s))>> \o MembersIntoProto(Tail(s))

DecodeAuthorizationType(code) ==
    IF code = "TRUST_AUTHORIZATION" THEN Ok("Trust")
    ELSE Err(UnsetField("Unset authorization type"))

\* A persistence arm that reports the reason of the authorization arm.
DecodePersistence_WrongReason(code) ==
    IF code = "ANY_PERSISTENCE" THEN Ok("Any")
    ELSE Err(UnsetField("Unset authorization type"))

DecodePersistence(code) ==
    IF code = "ANY_PERSISTENCE" THEN Ok("Any")
    ELSE Err(UnsetField("Unset persistence type"))

\* A routes arm that falls back to the Any variant.
DecodeRoutes_Default(code) == Ok("Any")

DecodeRoutes(code) ==
    IF code = "ANY_ROUTE" THEN Ok("Any")
    ELSE Err(UnsetField("Unset route type"))

CreateCircuit_from_proto(proto) ==
    LET authorization_type == DecodeAuthorizationType(proto.authorization_type)
        persistence == DecodePersistence(proto.persistence)
        routes == DecodeRoutes(proto.routes)
        roster == RosterFromProto(proto.roster)
        members == MembersFromProto(proto.members)
    IN  IF ~authorization_type.ok THEN authorization_type
        ELSE IF ~persistence.ok THEN persistence
        ELSE IF ~routes.ok THEN routes
        ELSE IF ~roster.ok THEN roster
        ELSE IF ~members.ok THEN members
        ELSE Ok([circuit_id |-> proto.circuit_id,
                 roster |-> roster.val,
                 members |-> members.val,
                 authorization_type |-> authorization_type.val,
                 persistence |-> persistence.val,
                 routes |-> routes.val,
                 circuit_management_type |-> proto.circuit_management_type,
                 application_metadata |-> proto.application_metadata])

EncodeAuthorizationType(v) == CASE v = "Trust" -> "TRUST_AUTHORIZATION"

\* An into_proto that never calls set_persistence: the field keeps its default.
EncodePersistence_Unset(v) == ProtoCircuit_new.persistence

EncodePersistence(v) == CASE v = "Any" -> "ANY_PERSISTENCE"

EncodeRoutes(v) == CASE v = "Any" -> "ANY_ROUTE"

CreateCircuit_into_proto(self) ==
    LET c == [ProtoCircuit_new EXCEPT
                !.circuit_id = self.circuit_id,
                !.roster = RosterIntoProto(self.roster),
                !.members = MembersIntoProto(self.members),
                !.circuit_management_type = self.circuit_management_type,
                !.application_metadata = self.application_metadata,
                !.authorization_type = EncodeAuthorizationType(self.authorization_type),
                !.persistence = EncodePersistence(self.persistence),
                !.routes = EncodeRoutes(self.routes)]
    IN  Ok([CircuitCreateRequest_new EXCEPT !.circuit = c])

(***************************************************************************)
(* SpecProto: a node either builds a CreateCircuit and relays it           *)
(* (into_proto, then the peer's from_proto on the circuit of the request), *)
(* or receives an admin::Circuit from a peer (from_proto, then into_proto  *)
(* of the accepted proposal to relay it on).                               *)
(***************************************************************************)
ProtoIdle ==
    /\ origin = Idle /\ value = Idle /\ circuit = Idle
    /\ request = Idle /\ decoded = Idle

PayloadIdle ==
    /\ payload = Idle /\ body = Idle /\ fut = Idle
    /\ proposal = Idle /\ polled = Idle /\ stream = Idle

ErrorIdle == error = Idle /\ wrapped = Idle /\ cause = Idle /\ shown = Idle

EnvIdle == env = Idle /\ seen = Idle /\ config = Idle /\ partial = Idle

InitProto ==
    /\ \/ /\ origin = "domain"
          /\ value \in {Some(x) : x \in CreateCircuit}
          /\ circuit = None
       \/ /\ origin = "wire"
          /\ value = None
          /\ circuit \in {Some(p) : p \in ProtoCircuit}
    /\ request = None
    /\ decoded = None
    /\ PayloadIdle /\ ErrorIdle /\ EnvIdle

IntoProto ==
    /\ value.some
    /\ ~request.some
    /\ request' = Some(CreateCircuit_into_proto(value.val))
    /\ UNCHANGED <<origin, value, circuit, decoded>>
    /\ UNCHANGED <<payloadVars, errorVars, envVars>>

\* from_proto of the circuit a peer sent, or of the circuit of the request
\* this node built.
FromProto ==
    /\ ~decoded.some
    /\ circuit.some \/ (request.some /\ request.val.ok)
    /\ LET proto == IF circuit.some THEN circuit.val ELSE request.val.val.circuit
           result == CreateCircuit_from_proto(proto)
       IN  /\ decoded' = Some(result)
           /\ circuit' = Some(proto)
           /\ value' = IF ~value.some /\ result.ok THEN Some(result.val) ELSE value
    /\ UNCHANGED <<origin, request>>
    /\ UNCHANGED <<payloadVars, errorVars, envVars>>

NextProto == IntoProto \/ FromProto

SpecProto == InitProto /\ [][NextProto]_vars

(***************************************************************************)
(* messages.rs: CreateCircuit::from_payload.                               *)
(*                                                                         *)
(* The body is a sequence of bytes.  The model has three of them: the two  *)
(* halves of the document                                                  *)
(*   {"circuit_id":"c1","roster":[],"members":[],                          *)
(*    "authorization_type":"Trust","persistence":"Any","routes":"Any",     *)
(*    "circuit_management_type":"mgmt","application_metadata":[]}          *)
(* written "{" and "}", and a space.  They are enough to write the         *)
(* document with and without white space around and inside it, truncated   *)
(* documents, documents with trailing bytes and the empty body.            *)
(***************************************************************************)
JsonBytes == {"{", "}", " "}

BodyChunks == SeqsUpTo(JsonBytes, MaxChunkLen)

NotWhitespace(b) == b # " "

\* serde_json::from_slice::<CreateCircuit>: white space is skipped; Ok for
\* one whole document and an error for anything else (empty input, a
\* truncated document, trailing bytes).
SerdeJsonFromSlice(buf) ==
    IF SelectSeq(buf, NotWhitespace) = <<"{", "}">>
    THEN Ok([circuit_id |-> "c1",
             roster |-> <<>>,
             members |-> <<>>,
             authorization_type |-> "Trust",
             persistence |-> "Any",
             routes |-> "Any",
             circuit_management_type |-> "mgmt",
             application_metadata |-> <<>>])
    ELSE Err("serde_json::Error")

\* A fold closure that keeps the last chunk only.
FoldStep_Overwrite(acc, chunk) == chunk

\* The closure of fold: body.extend_from_slice(&chunk); Ok(body)
FoldStep(acc, chunk) == acc \o chunk

\* The closure of and_then: from_slice(&body).unwrap() panics on Err.
AndThen(acc) ==
    LET parsed == SerdeJsonFromSlice(acc)
    IN  IF parsed.ok
        THEN [fut |-> "ready", body |-> acc, proposal |-> Some(parsed.val)]
        ELSE [fut |-> "panicked", body |-> acc, proposal |-> None]

\* A chain that treats an error of the stream as its end and parses what
\* has arrived.
OnItem_ErrorAsEnd(item, acc) ==
    CASE item.kind = "chunk" ->
            [fut |-> "folding", body |-> FoldStep(acc, item.data), proposal |-> None]
      [] item.kind = "end" -> AndThen(acc)
      [] item.kind = "error" -> AndThen(acc)

\* One poll of payload.from_err().fold(..).and_then(..) with the item the
\* stream yields: a chunk is folded in, the end of the stream hands the
\* accumulator to and_then, an error of the stream is the future's error and
\* skips and_then.
OnItem(item, acc) ==
    CASE item.kind = "chunk" ->
            [fut |-> "folding", body |-> FoldStep(acc, item.data), proposal |-> None]
      [] item.kind = "end" -> AndThen(acc)
      [] item.kind = "error" -> [fut |-> "failed", body |-> <<>>, proposal |-> None]

InitPayload ==
    /\ payload \in SeqsUpTo(BodyChunks, MaxChunks)
    /\ body = <<>>
    /\ fut = "folding"
    /\ proposal = None
    /\ polled = 0
    /\ stream = "open"
    /\ ProtoIdle /\ ErrorIdle /\ EnvIdle

Poll(item) ==
    LET after == OnItem(item, body)
    IN  /\ fut' = after.fut
        /\ body' = after.body
        /\ proposal' = after.proposal
        /\ UNCHANGED payload
        /\ UNCHANGED <<protoVars, errorVars, envVars>>

\* The stream yields its next chunk.
StreamChunk ==
    /\ fut = "folding"
    /\ stream = "open"
    /\ polled < Len(payload)
    /\ polled' = polled + 1
    /\ UNCHANGED stream
    /\ Poll([kind |-> "chunk", data |-> payload[polled + 1]])

\* The stream is finished.
StreamEnd ==
    /\ fut = "folding"
    /\ stream = "open"
    /\ polled = Len(payload)
    /\ stream' = "ended"
    /\ UNCHANGED polled
    /\ Poll([kind |-> "end"])

\* The stream fails (PayloadError), at any point of the body.
StreamError ==
    /\ fut = "folding"
    /\ stream = "open"
    /\ stream' = "errored"
    /\ UNCHANGED polled
    /\ Poll([kind |-> "error"])

\* The request is cancelled: the future is dropped while it waits for the
\* stream, and the accumulator with it.
Drop ==
    /\ fut = "folding"
    /\ fut' = "dropped"
    /\ body' = <<>>
    /\ UNCHANGED <<payload, proposal, polled, stream>>
    /\ UNCHANGED <<protoVars, errorVars, envVars>>

NextPayload == StreamChunk \/ StreamEnd \/ StreamError \/ Drop

SpecPayload == InitPayload /\ [][NextPayload]_vars

(***************************************************************************)
(* rest_api/error.rs and the MarshallingError of messages.rs.              *)
(***************************************************************************)
Messages == {"c1", "c2", "c3", "p1", "p2", "p3"}

\* store::CircuitStoreError: opaque to this layer; it has a Display.
CircuitStoreError == [type : {"CircuitStoreError"}, msg : Messages]

CircuitStoreError_fmt(self) == <<self.msg>>

ProposalRouteError ==
    [type : {"ProposalRouteError"}, variant : {"NotFound", "InternalError"}, arg : Messages]

CircuitRouteError_NotFound(msg) ==
    [type |-> "CircuitRouteError", variant |-> "NotFound", arg |-> msg]

CircuitRouteError_CircuitStoreError(err) ==
    [type |-> "CircuitRouteError", variant |-> "CircuitStoreError", arg |-> err]

MarshallingError ==
    {[type |-> "MarshallingError", variant |-> "UnsetField", arg |-> reason] :
        reason \in {"Unset authorization type", "Unset persistence type", "Unset route type"}}

ProposalRouteError_source(self) ==
    CASE self.variant = "NotFound" -> None
      [] self.variant = "InternalError" -> None

ProposalRouteError_fmt(self) ==
    CASE self.variant = "NotFound" -> <<"Proposal not found: ", self.arg>>
      [] self.variant = "InternalError" -> <<"Ran into internal error: ", self.arg>>

\* A source that reports no cause for any variant.
CircuitRouteError_source_NoCause(self) == None

CircuitRouteError_source(self) ==
    CASE self.variant = "NotFound" -> None
      [] self.variant = "CircuitStoreError" -> Some(self.arg)

CircuitRouteError_fmt(self) ==
    CASE self.variant = "NotFound" -> <<"Circuit not found: ", self.arg>>
      [] self.variant = "CircuitStoreError" -> CircuitStoreError_fmt(self.arg)

CircuitRouteError_from(err) == CircuitRouteError_CircuitStoreError(err)

MarshallingError_source(self) ==
    CASE self.variant = "UnsetField" -> None

MarshallingError_fmt(self) ==
    CASE self.variant = "UnsetField" -> <<"Invalid enumerated type">>

\* The error the route handler reports: the store error once wrapped, the
\* route or marshalling error as raised.
Reported == IF wrapped.some THEN wrapped.val ELSE error

InitError ==
    /\ error \in CircuitStoreError \cup ProposalRouteError \cup MarshallingError
                    \cup {CircuitRouteError_NotFound(m) : m \in Messages}
    /\ wrapped = None
    /\ cause = None
    /\ shown = None
    /\ ProtoIdle /\ PayloadIdle /\ EnvIdle

\* impl From<store::CircuitStoreError> for CircuitRouteError
From ==
    /\ error.type = "CircuitStoreError"
    /\ ~wrapped.some
    /\ wrapped' = Some(CircuitRouteError_from(error))
    /\ UNCHANGED <<error, cause, shown>>
    /\ UNCHANGED <<protoVars, payloadVars, envVars>>

\* Error::source
Source ==
    /\ Reported.type # "CircuitStoreError"
    /\ ~cause.some
    /\ cause' = Some(CASE Reported.type = "ProposalRouteError" ->
                              ProposalRouteError_source(Reported)
                       [] Reported.type = "CircuitRouteError" ->
                              CircuitRouteError_source(Reported)
                       [] Reported.type = "MarshallingError" ->
                              MarshallingError_source(Reported))
    /\ UNCHANGED <<error, wrapped, shown>>
    /\ UNCHANGED <<protoVars, payloadVars, envVars>>

\* Display::fmt
Display ==
    /\ Reported.type # "CircuitStoreError"
    /\ ~shown.some
    /\ shown' = Some(CASE Reported.type = "ProposalRouteError" ->
                              ProposalRouteError_fmt(Reported)
                       [] Reported.type = "CircuitRouteError" ->
                              CircuitRouteError_fmt(Reported)
                       [] Reported.type = "MarshallingError" ->
                              MarshallingError_fmt(Reported))
    /\ UNCHANGED <<error, wrapped, cause>>
    /\ UNCHANGED <<protoVars, payloadVars, envVars>>

NextError == From \/ Source \/ Display

SpecError == InitError /\ [][NextError]_vars

(***************************************************************************)
(* config/env.rs.                                                          *)
(*                                                                         *)
(* The value of an environment variable is an OsString: it may or may not  *)
(* be valid Unicode.                                                       *)
(***************************************************************************)
STATE_DIR_ENV == "SPLINTER_STATE_DIR"
CERT_DIR_ENV == "SPLINTER_CERT_DIR"

Unset == [set |-> FALSE]

OsStrings ==
    {[set |-> TRUE, unicode |-> TRUE, text |-> "state/test/config"],
     [set |-> TRUE, unicode |-> TRUE, text |-> "cert/test/config"],
     [set |-> TRUE, unicode |-> FALSE, text |-> "state/\\xFF"]}

\* std::env::var: NotPresent for a variable that is not set, NotUnicode for
\* a value that is not valid Unicode, the value as a String otherwise.
EnvVar(e, key) ==
    IF ~e[key].set THEN Err("NotPresent")
    ELSE IF ~e[key].unicode THEN Err("NotUnicode")
    ELSE Ok(e[key].text)

\* Result::ok
ResultOk(r) == IF r.ok THEN Some(r.val) ELSE None

EnvVarConfig_new(e) ==
    [state_dir |-> ResultOk(EnvVar(e, STATE_DIR_ENV)),
     cert_dir |-> ResultOk(EnvVar(e, CERT_DIR_ENV))]

PartialConfig_new(source) == [source |-> source, state_dir |-> None, cert_dir |-> None]

PartialConfig_with_cert_dir(self, dir) == [self EXCEPT !.cert_dir = dir]

PartialConfig_with_state_dir(self, dir) == [self EXCEPT !.state_dir = dir]

\* A build that hands each directory to the other setter.
EnvVarConfig_build_Swapped(self) ==
    PartialConfig_with_state_dir(
        PartialConfig_with_cert_dir(PartialConfig_new("Environment"), self.state_dir),
        self.cert_dir)

EnvVarConfig_build(self) ==
    PartialConfig_with_state_dir(
        PartialConfig_with_cert_dir(PartialConfig_new("Environment"), self.cert_dir),
        self.state_dir)

InitEnv ==
    /\ env \in [{STATE_DIR_ENV, CERT_DIR_ENV} -> OsStrings \cup {Unset}]
    /\ seen = None
    /\ config = None
    /\ partial = None
    /\ ProtoIdle /\ PayloadIdle /\ ErrorIdle

\* env::set_var
SetVar(key, val) ==
    /\ env' = [env EXCEPT ![key] = val]
    /\ UNCHANGED <<seen, config, partial>>
    /\ UNCHANGED <<protoVars, payloadVars, errorVars>>

\* env::remove_var
RemoveVar(key) ==
    /\ env' = [env EXCEPT ![key] = Unset]
    /\ UNCHANGED <<seen, config, partial>>
    /\ UNCHANGED <<protoVars, payloadVars, errorVars>>

\* let env_var_config = EnvVarConfig::new();
New ==
    /\ config' = Some(EnvVarConfig_new(env))
    /\ seen' = Some(env)
    /\ partial' = None
    /\ UNCHANGED env
    /\ UNCHANGED <<protoVars, payloadVars, errorVars>>

\* env_var_config.build(): consumes the EnvVarConfig.
Build ==
    /\ config.some
    /\ partial' = Some(EnvVarConfig_build(config.val))
    /\ config' = None
    /\ UNCHANGED <<env, seen>>
    /\ UNCHANGED <<protoVars, payloadVars, errorVars>>

NextEnv ==
    \/ \E key \in {STATE_DIR_ENV, CERT_DIR_ENV}, val \in OsStrings : SetVar(key, val)
    \/ \E key \in {STATE_DIR_ENV, CERT_DIR_ENV} : RemoveVar(key)
    \/ New
    \/ Build

SpecEnv == InitEnv /\ [][NextEnv]_vars

(***************************************************************************)
(* Properties of from_proto / into_proto (SpecProto).                      *)
(***************************************************************************)
HasUnset(proto) ==
    \/ proto.authorization_type = "UNSET_AUTHORIZATION_TYPE"
    \/ proto.persistence = "UNSET_PERSISTENCE_TYPE"
    \/ proto.routes = "UNSET_ROUTE_TYPE"

\* C1: a CreateCircuit relayed through into_proto and decoded again with
\* from_proto comes back Ok and equal to the original, field for field and
\* in the same order.
C1_RoundTrip ==
    (origin = "domain" /\ decoded.some) =>
        /\ decoded.val.ok
        /\ \A f \in {"circuit_id", "roster", "members", "authorization_type",
                     "persistence", "routes", "circuit_management_type",
                     "application_metadata"} :
               decoded.val.val[f] = value.val[f]
        /\ DOMAIN decoded.val.val = DOMAIN value.val

C1_Witness ==
    /\ origin = "domain" /\ decoded.some
    /\ Len(value.val.roster) = 2
    /\ value.val.roster[1].allowed_nodes = <<"n2", "n1">>
    /\ value.val.roster[2].allowed_nodes = <<"n1">>
    /\ Len(value.val.members) = 2
    /\ value.val.members[1].node_id = "n2"
    /\ value.val.members[2].node_id = "n1"
    /\ value.val.application_metadata = <<255>>

\* C2: a wire circuit with an unset authorization_type, persistence or routes
\* is rejected with UnsetField, and no CreateCircuit comes out of it.
C2_Rejection ==
    (decoded.some /\ HasUnset(circuit.val)) =>
        /\ ~decoded.val.ok
        /\ DOMAIN decoded.val = {"ok", "err"}
        /\ decoded.val.err.variant = "UnsetField"
        /\ ~value.some
        /\ ~request.some

C2_Witness ==
    /\ decoded.some
    /\ circuit.val.authorization_type = "TRUST_AUTHORIZATION"
    /\ circuit.val.persistence = "ANY_PERSISTENCE"
    /\ circuit.val.routes = "UNSET_ROUTE_TYPE"
    /\ Len(circuit.val.roster) = 2
    /\ Len(circuit.val.members) = 1

\* C6: into_proto and from_proto each keep roster, members and allowed_nodes
\* at their length, element i coming from element i: no sorting, no removal
\* of duplicates.
SameServices(out, in) ==
    /\ Len(out) = Len(in)
    /\ \A i \in 1..Len(in) :
          /\ out[i].service_id = in[i].service_id
          /\ out[i].service_type = in[i].service_type
          /\ Len(out[i].allowed_nodes) = Len(in[i].allowed_nodes)
          /\ \A j \in 1..Len(in[i].allowed_nodes) :
                out[i].allowed_nodes[j] = in[i].allowed_nodes[j]

SameNodes(out, in) ==
    /\ Len(out) = Len(in)
    /\ \A i \in 1..Len(in) :
          /\ out[i].node_id = in[i].node_id
          /\ out[i].endpoint = in[i].endpoint

C6_OrderPreserved ==
    /\ request.some =>
          /\ SameServices(request.val.val.circuit.roster, value.val.roster)
          /\ SameNodes(request.val.val.circuit.members, value.val.members)
    /\ (decoded.some /\ decoded.val.ok) =>
          /\ SameServices(decoded.val.val.roster, circuit.val.roster)
          /\ SameNodes(decoded.val.val.members, circuit.val.members)

C6_Witness ==
    /\ origin = "domain" /\ request.some /\ decoded.some /\ decoded.val.ok
    /\ Len(circuit.val.roster) = 2
    /\ circuit.val.roster[1].service_id = circuit.val.roster[2].service_id
    /\ circuit.val.roster[1].allowed_nodes = <<"n2", "n1">>
    /\ circuit.val.roster[2].allowed_nodes = <<"n1", "n1">>
    /\ circuit.val.members = <<[node_id |-> "n2", endpoint |-> "tcp://a:8044"],
                               [node_id |-> "n2", endpoint |-> "tcp://a:8044"]>>

\* C8: into_proto always returns Ok with the three enum fields set to the
\* code of the domain variant, never an unset code; and from_proto's enum
\* decoding fails on the unset code of each field and on no other code.
C8_IntoProtoTotal ==
    /\ request.some =>
          /\ request.val.ok
          /\ request.val.val.circuit.authorization_type = "TRUST_AUTHORIZATION"
          /\ request.val.val.circuit.persistence = "ANY_PERSISTENCE"
          /\ request.val.val.circuit.routes = "ANY_ROUTE"
          /\ ~HasUnset(request.val.val.circuit)
    /\ {c \in Circuit_AuthorizationType : ~DecodeAuthorizationType(c).ok}
          = {"UNSET_AUTHORIZATION_TYPE"}
    /\ {c \in Circuit_PersistenceType : ~DecodePersistence(c).ok}
          = {"UNSET_PERSISTENCE_TYPE"}
    /\ {c \in Circuit_RouteType : ~DecodeRoutes(c).ok} = {"UNSET_ROUTE_TYPE"}
    /\ decoded.some => (decoded.val.ok <=> ~HasUnset(circuit.val))

C8_Witness ==
    /\ origin = "wire" /\ request.some /\ decoded.some
    /\ Len(value.val.roster) = 1
    /\ value.val.authorization_type = "Trust"

\* C9 as stated: the reason of UnsetField is the field's name followed by
\* " unset".
OnlyUnset(proto, field) ==
    /\ HasUnset(proto)
    /\ (proto.authorization_type = "UNSET_AUTHORIZATION_TYPE") <=> (field = "authorization_type")
    /\ (proto.persistence = "UNSET_PERSISTENCE_TYPE") <=> (field = "persistence")
    /\ (proto.routes = "UNSET_ROUTE_TYPE") <=> (field = "routes")

C9_ReasonFieldNameUnset ==
    decoded.some =>
        /\ OnlyUnset(circuit.val, "authorization_type") =>
              decoded.val.err.reason = "authorization_type unset"
        /\ OnlyUnset(circuit.val, "persistence") =>
              decoded.val.err.reason = "persistence unset"
        /\ OnlyUnset(circuit.val, "routes") =>
              decoded.val.err.reason = "routes unset"

\* C9 amended: the reason of UnsetField names the offending field as
\* "Unset authorization type", "Unset persistence type" or "Unset route type".
C9_ReasonUnsetFieldType ==
    decoded.some =>
        /\ OnlyUnset(circuit.val, "authorization_type") =>
              decoded.val = Err(UnsetField("Unset authorization type"))
        /\ OnlyUnset(circuit.val, "persistence") =>
              decoded.val = Err(UnsetField("Unset persistence type"))
        /\ OnlyUnset(circuit.val, "routes") =>
              decoded.val = Err(UnsetField("Unset route type"))

C9_Witness ==
    /\ decoded.some
    /\ OnlyUnset(circuit.val, "persistence")
    /\ ~decoded.val.ok
    /\ Len(circuit.val.members) = 2

(***************************************************************************)
(* Properties of from_payload (SpecPayload).                               *)
(***************************************************************************)
RECURSIVE Flatten(_)
Flatten(cs) == IF cs = <<>> THEN <<>> ELSE Head(cs) \o Flatten(Tail(cs))

\* C3: the future of from_payload resolves to a CreateCircuit or to an error
\* value; it never panics.
C3_NeverPanics == fut # "panicked"

\* C4: however a well-formed body is split into chunks, the accumulator ends
\* up as the whole body and the future resolves to the CreateCircuit that
\* parsing the body in one piece gives.
C4_ChunkBoundaryIndependence ==
    /\ fut = "folding" => body = Flatten(SubSeq(payload, 1, polled))
    /\ (fut \in {"ready", "panicked"} /\ SerdeJsonFromSlice(Flatten(payload)).ok) =>
          /\ fut = "ready"
          /\ body = Flatten(payload)
          /\ proposal = Some(SerdeJsonFromSlice(Flatten(payload)).val)

C4_Witness ==
    /\ fut = "ready"
    /\ payload = <<<<"{">>, <<" ", "}">>>>
    /\ body = <<"{", " ", "}">>
    /\ proposal.some /\ proposal.val.circuit_id = "c1"

\* C5: a CreateCircuit exists only once the stream has yielded all of its
\* chunks and signalled its end; a future that is dropped or whose stream
\* failed never holds one, now or later, and while chunks are awaited only
\* the partial buffer is held.
C5_NoProposalBeforeCompletion ==
    /\ [](proposal.some => (stream = "ended" /\ polled = Len(payload) /\ fut = "ready"))
    /\ [](fut = "folding" => (~proposal.some /\ stream = "open"))
    /\ []((stream = "errored" \/ fut \in {"dropped", "failed"}) => ~proposal.some)
    /\ [][(fut \in {"dropped", "failed"}) => (fut' = fut /\ proposal' = proposal)]_vars

C5_Witness ==
    /\ fut = "failed"
    /\ stream = "errored"
    /\ payload = <<<<"{", "}">>>>
    /\ polled = 1
    /\ ~proposal.some

(***************************************************************************)
(* Properties of the error types (SpecError).                              *)
(***************************************************************************)
\* C7: CircuitRouteError::from(e) is CircuitStoreError(e) and its source() is
\* e itself; the NotFound, InternalError and UnsetField errors have no cause.
C7_ErrorChaining ==
    /\ wrapped.some =>
          /\ wrapped.val.type = "CircuitRouteError"
          /\ wrapped.val.variant = "CircuitStoreError"
          /\ wrapped.val.arg = error
    /\ (cause.some /\ wrapped.some) => cause.val = Some(error)
    /\ (cause.some /\ ~wrapped.some) =>
          /\ error.variant \in {"NotFound", "InternalError", "UnsetField"}
          /\ cause.val = None

C7_Witness ==
    /\ error = [type |-> "CircuitStoreError", msg |-> "c2"]
    /\ wrapped.some
    /\ cause.some /\ cause.val.some

(***************************************************************************)
(* Properties of the environment configuration (SpecEnv).                  *)
(***************************************************************************)
\* C10 as stated: the PartialConfig has source Environment, and state_dir and
\* cert_dir are None for a variable that was unset when new() ran and
\* Some(value) otherwise.
SomeIfSet(e, key) == IF e[key].set THEN Some(e[key].text) ELSE None

C10_SnapshotOfSetVariables ==
    partial.some =>
        /\ partial.val.source = "Environment"
        /\ partial.val.state_dir = SomeIfSet(seen.val, STATE_DIR_ENV)
        /\ partial.val.cert_dir = SomeIfSet(seen.val, CERT_DIR_ENV)

\* C10 amended: the PartialConfig has source Environment, and state_dir and
\* cert_dir are None for a variable that was unset or held a value that is
\* not valid Unicode when new() ran, and Some(value) otherwise; later changes
\* of the environment do not show.
SomeIfUnicode(e, key) ==
    IF e[key].set /\ e[key].unicode THEN Some(e[key].text) ELSE None

C10_SnapshotOfUnicodeVariables ==
    partial.some =>
        /\ partial.val.source = "Environment"
        /\ partial.val.state_dir = SomeIfUnicode(seen.val, STATE_DIR_ENV)
        /\ partial.val.cert_dir = SomeIfUnicode(seen.val, CERT_DIR_ENV)

C10_Witness ==
    /\ partial.some
    /\ seen.val[STATE_DIR_ENV] = [set |-> TRUE, unicode |-> TRUE, text |-> "state/test/config"]
    /\ seen.val[CERT_DIR_ENV] = Unset
    /\ env[STATE_DIR_ENV] = Unset
    /\ env[CERT_DIR_ENV] = [set |-> TRUE, unicode |-> TRUE, text |-> "cert/test/config"]

====
